---- MODULE Spec2Model ----
(***************************************************************************)
(* Device inventory and threat detection engine of the Network-Scanner     *)
(* backend: the device store of services/deviceDiscovery.js, the port      *)
(* monitoring service of services/portMonitoring.js (access lists, scan    *)
(* history, attack detection, alert log) and the routes that drive them.   *)
(***************************************************************************)
EXTENDS Integers, Sequences, FiniteSets, TLC

(***************************************************************************)
(* Bounds of the model                                                     *)
(***************************************************************************)
MaxTicks == 1
MaxScans == 2
MaxBurst == 12
MaxRandom == 0
MaxFindings == 3
MaxBatch == 2
MaxPorts == 2

(***************************************************************************)
(* Values                                                                  *)
(***************************************************************************)
NULL == "null"
NoTime == -1

IPs == {"192.168.1.50"}

\* Date.now() advances by a short step or by more than the scan window
ShortSteps == {500}
TickSteps == {500, 60001}

\* ATTACK_PATTERNS
portScanThreshold == 10
portScanTimeWindow == 60000
suspiciousPorts == {21, 23, 135, 139, 445, 3389, 5900}
commonAttackServices == <<"vsftpd 2.3.4", "ProFTPD 1.3.3c", "Apache 2.2.8">>
unusualPortCount == 50

VARIABLES
    whitelist,          \* portMonitoring.js: const whitelist = new Set()
    blacklist,          \* portMonitoring.js: const blacklist = new Set()
    alerts,             \* portMonitoring.js: const alerts = []
    scanHistory,        \* portMonitoring.js: const scanHistory = new Map()
    discoveredDevices,  \* deviceDiscovery.js: let discoveredDevices = new Map()
    lastMerged,         \* the observation of the last mergeDevice call that returned
    monInFlight,        \* monitoring scans awaiting fastPortScan / portScan
    discInFlight,       \* /scan/ports scans awaiting fastPortScan
    discovery,          \* position of the running POST /scan/network request
    batch,              \* position of the running scanMultipleDevices call
    emitted,            \* change notifications io.emit sent during the last step
    now,                \* Date.now()
    ticks,              \* number of clock steps taken
    response            \* outcome of the last finished operation

vars == <<whitelist, blacklist, alerts, scanHistory, discoveredDevices, lastMerged,
          monInFlight, discInFlight, discovery, batch, emitted, now, ticks, response>>

accessVars == <<whitelist, blacklist>>
monVars == <<alerts, scanHistory>>
storeVars == <<discoveredDevices, lastMerged>>
flightVars == <<monInFlight, discInFlight, discovery, batch>>
clockVars == <<now, ticks>>

\* Map.prototype.has / get / set on a function with a finite domain
has(map, key) == key \in DOMAIN map

mapSet(map, key, value) ==
    [k \in DOMAIN map \cup {key} |-> IF k = key THEN value ELSE map[k]]

emptyMap == [k \in {} |-> NULL]

\* outcome of the last completed operation (return value or thrown error)
Response(op, ip, status) == [op |-> op, ip |-> ip, status |-> status]

(***************************************************************************)
(* Socket events (socket/socketHandlers.js); io is initialized by          *)
(* server.js before the first request is served                            *)
(***************************************************************************)
Emission(event, payload) == [event |-> event, payload |-> payload]

\* io.emit('devices-updated', devices): the payload is the set of the records
emitDevicesUpdated(devices) == <<Emission("devices-updated", devices)>>

\* io.emit('new-device', device)
emitNewDevice(device) == <<Emission("new-device", device)>>

\* emitAlert when getIO() throws: the error is caught and nothing is sent
emitAlert_notInitialized(alert) == <<>>

\* io.emit('security-alert', alert)
emitAlert(alert) == <<Emission("security-alert", alert)>>

\* the emissions of one event among those of a step
eventsOf(emissions, event) == SelectSeq(emissions, LAMBDA e : e.event = event)

(***************************************************************************)
(* JavaScript helpers                                                      *)
(***************************************************************************)
\* a || b on strings: null, undefined and '' are falsy
Truthy(x) == x # NULL /\ x # ""

OrElse(a, b) == IF Truthy(a) THEN a ELSE b

UpperChars == "ABCDEFGHIJKLMNOPQRSTUVWXYZ"
LowerChars == "abcdefghijklmnopqrstuvwxyz"

LowerChar(c) ==
    IF \E i \in 1..26 : SubSeq(UpperChars, i, i) = c
    THEN LET i == CHOOSE j \in 1..26 : SubSeq(UpperChars, j, j) = c
         IN  SubSeq(LowerChars, i, i)
    ELSE c

RECURSIVE toLowerCase(_)
toLowerCase(s) ==
    IF Len(s) = 0 THEN ""
    ELSE LowerChar(SubSeq(s, 1, 1)) \o toLowerCase(SubSeq(s, 2, Len(s)))

\* String.prototype.includes
includes(s, sub) ==
    \/ Len(sub) = 0
    \/ \E i \in 1..(Len(s) - Len(sub) + 1) : SubSeq(s, i, i + Len(sub) - 1) = sub

(***************************************************************************)
(* Scan history (portMonitoring.js)                                        *)
(***************************************************************************)
\* the map after updateScanHistory(ip) has run at time t
updateScanHistory(ip, t) ==
    LET history == IF has(scanHistory, ip) THEN scanHistory[ip] ELSE <<>>
        pushed == Append(history, t)
        filtered == SelectSeq(pushed, LAMBDA timestamp :
                                  t - timestamp < portScanTimeWindow)
    IN  mapSet(scanHistory, ip, filtered)

getScanFrequency(ip) ==
    LET history == IF has(scanHistory, ip) THEN scanHistory[ip] ELSE <<>>
    IN  [count |-> Len(history), timeWindow |-> portScanTimeWindow]

(***************************************************************************)
(* Service classification and attack detection (portMonitoring.js)         *)
(***************************************************************************)
PortObservation(port, protocol, state, service, version) ==
    [port |-> port, protocol |-> protocol, state |-> state,
     service |-> service, version |-> version]

\* vulnService.toLowerCase() for each signature
vulnServicesLower ==
    [k \in 1..Len(commonAttackServices) |-> toLowerCase(commonAttackServices[k])]

versionMatches(version) ==
    \E k \in 1..Len(commonAttackServices) :
        includes(toLowerCase(version), vulnServicesLower[k])

\* the serviceInfo object built for one port, after both checks have run
serviceInfoOf(portInfo) ==
    LET byPort == portInfo.port \in suspiciousPorts
        byVersion == versionMatches(OrElse(portInfo.version, ""))
    IN  [port |-> portInfo.port,
         protocol |-> OrElse(portInfo.protocol, "tcp"),
         service |-> OrElse(portInfo.service, "unknown"),
         version |-> OrElse(portInfo.version, ""),
         state |-> OrElse(portInfo.state, "open"),
         isSuspicious |-> byPort \/ byVersion,
         reason |-> IF byVersion THEN "Known vulnerable version"
                    ELSE IF byPort THEN "Commonly exploited port"
                    ELSE ""]

\* suspiciousPushes without the !suspiciousServices.includes(serviceInfo) test
suspiciousPushes_noDedup(portInfo) ==
    LET info == serviceInfoOf(portInfo)
        byPort == portInfo.port \in suspiciousPorts
        byVersion == versionMatches(OrElse(portInfo.version, ""))
    IN  (IF byPort THEN <<info>> ELSE <<>>)
        \o (IF byVersion THEN <<info>> ELSE <<>>)

\* the pushes one port makes to suspiciousServices: one by the port check,
\* one by the version check unless the same object is already in the list
suspiciousPushes(portInfo) ==
    LET info == serviceInfoOf(portInfo)
        byPort == portInfo.port \in suspiciousPorts
        byVersion == versionMatches(OrElse(portInfo.version, ""))
    IN  (IF byPort THEN <<info>> ELSE <<>>)
        \o (IF byVersion /\ ~byPort THEN <<info>> ELSE <<>>)

\* device.ports.forEach(...): the two arrays after the ports were visited in
\* order (the list is split in halves, which keeps the evaluation shallow)
RECURSIVE classifyPorts(_)
classifyPorts(ports) ==
    IF ports = <<>> THEN [services |-> <<>>, suspiciousServices |-> <<>>]
    ELSE IF Len(ports) = 1
    THEN [services |-> <<serviceInfoOf(ports[1])>>,
          suspiciousServices |-> suspiciousPushes(ports[1])]
    ELSE LET half == Len(ports) \div 2
             first == classifyPorts(SubSeq(ports, 1, half))
             rest == classifyPorts(SubSeq(ports, half + 1, Len(ports)))
         IN  [services |-> first.services \o rest.services,
              suspiciousServices |->
                  first.suspiciousServices \o rest.suspiciousServices]

identifyServices(device) ==
    IF ~device.hasPorts \/ Len(device.ports) = 0
    THEN [services |-> <<>>, suspiciousServices |-> <<>>]
    ELSE classifyPorts(device.ports)

Finding(type, severity, description, ports, services, t) ==
    [type |-> type, severity |-> severity, description |-> description,
     ports |-> ports, services |-> services, timestamp |-> t]

portNumbers(ports) == [i \in 1..Len(ports) |-> ports[i].port]

\* detectAttackTypes counting only ports in state open and raising Vulnerable
\* Services only for a version match
detectAttackTypes_openAndVersionOnly(ip, device, servicesInfo, t) ==
    LET scanFrequency == getScanFrequency(ip)
        openPorts == SelectSeq(IF device.hasPorts THEN device.ports ELSE <<>>,
                               LAMBDA p : p.state = "open")
        openSuspiciousPorts ==
            SelectSeq(openPorts, LAMBDA p : p.port \in suspiciousPorts)
        vulnerable == SelectSeq(servicesInfo.suspiciousServices,
                                LAMBDA e : e.reason = "Known vulnerable version")
    IN  (IF scanFrequency.count > portScanThreshold
         THEN <<Finding("Port Scan Attack", "high",
                        <<"Device scanned", scanFrequency.count, scanFrequency.timeWindow>>,
                        <<>>, <<>>, t)>>
         ELSE <<>>)
        \o (IF Len(openSuspiciousPorts) > 0
            THEN <<Finding("Suspicious Ports Open", "medium",
                           <<"Found", Len(openSuspiciousPorts)>>,
                           portNumbers(openSuspiciousPorts), <<>>, t)>>
            ELSE <<>>)
        \o (IF Len(vulnerable) > 0
            THEN <<Finding("Vulnerable Services", "high",
                           <<"Detected services with known vulnerabilities">>,
                           <<>>, servicesInfo.suspiciousServices, t)>>
            ELSE <<>>)
        \o (IF Len(openPorts) > unusualPortCount
            THEN <<Finding("Unusual Port Activity", "medium",
                           <<"Abnormally high number of open ports", Len(openPorts)>>,
                           <<>>, <<>>, t)>>
            ELSE <<>>)

detectAttackTypes(ip, device, servicesInfo, t) ==
    LET scanFrequency == getScanFrequency(ip)
        openPorts == IF device.hasPorts THEN device.ports ELSE <<>>
        openSuspiciousPorts ==
            SelectSeq(openPorts, LAMBDA p : p.port \in suspiciousPorts)
    IN  (IF scanFrequency.count > portScanThreshold
         THEN <<Finding("Port Scan Attack", "high",
                        <<"Device scanned", scanFrequency.count, scanFrequency.timeWindow>>,
                        <<>>, <<>>, t)>>
         ELSE <<>>)
        \o (IF Len(openSuspiciousPorts) > 0
            THEN <<Finding("Suspicious Ports Open", "medium",
                           <<"Found", Len(openSuspiciousPorts)>>,
                           portNumbers(openSuspiciousPorts), <<>>, t)>>
            ELSE <<>>)
        \o (IF Len(servicesInfo.suspiciousServices) > 0
            THEN <<Finding("Vulnerable Services", "high",
                           <<"Detected services with known vulnerabilities">>,
                           <<>>, servicesInfo.suspiciousServices, t)>>
            ELSE <<>>)
        \o (IF Len(openPorts) > unusualPortCount
            THEN <<Finding("Unusual Port Activity", "medium",
                           <<"Abnormally high number of open ports", Len(openPorts)>>,
                           <<>>, <<>>, t)>>
            ELSE <<>>)

(***************************************************************************)
(* Alerts (portMonitoring.js)                                              *)
(***************************************************************************)
countSeverity(attacks, severity) ==
    Len(SelectSeq(attacks, LAMBDA a : a.severity = severity))

\* calculateSeverity without the escalation of two medium findings
calculateSeverity_noEscalation(attacks) ==
    LET highSeverity == countSeverity(attacks, "high")
        mediumSeverity == countSeverity(attacks, "medium")
    IN  IF highSeverity > 0 THEN "high"
        ELSE IF mediumSeverity > 0 THEN "medium"
        ELSE "low"

calculateSeverity(attacks) ==
    LET highSeverity == countSeverity(attacks, "high")
        mediumSeverity == countSeverity(attacks, "medium")
    IN  IF highSeverity > 0 THEN "high"
        ELSE IF mediumSeverity > 1 THEN "high"
        ELSE IF mediumSeverity > 0 THEN "medium"
        ELSE "low"

\* the alert object generateAlert builds; rnd stands for Math.random()
generateAlert(ip, attacks, servicesInfo, t, rnd) ==
    [id |-> <<t, rnd>>,
     ip |-> ip,
     timestamp |-> t,
     attacks |-> attacks,
     suspiciousServices |-> servicesInfo.suspiciousServices,
     severity |-> calculateSeverity(attacks),
     acknowledged |-> FALSE,
     acknowledgedAt |-> NoTime]

\* alerts.filter(a => a.ip === ip) on the log as it stands
alertsOf(log, ip) == SelectSeq(log, LAMBDA a : a.ip = ip)

getDeviceAlerts(ip) == alertsOf(alerts, ip)

\* getAlerts(filter): any filter but 'unacknowledged' and 'high' returns the log
getAlerts(filter) ==
    IF filter = "unacknowledged" THEN SelectSeq(alerts, LAMBDA a : ~a.acknowledged)
    ELSE IF filter = "high" THEN SelectSeq(alerts, LAMBDA a : a.severity = "high")
    ELSE alerts

(***************************************************************************)
(* Parsers (parsers/arpParser.js, parsers/nmapParser.js)                   *)
(***************************************************************************)
Device(ip, mac, vendor, hostname, status, hasPorts, ports, discoveryMethod, lastSeen) ==
    [ip |-> ip, mac |-> mac, vendor |-> vendor, hostname |-> hostname,
     status |-> status, hasPorts |-> hasPorts, ports |-> ports,
     discoveryMethod |-> discoveryMethod, lastSeen |-> lastSeen]

UpperChar(c) ==
    IF \E i \in 1..26 : SubSeq(LowerChars, i, i) = c
    THEN LET i == CHOOSE j \in 1..26 : SubSeq(LowerChars, j, j) = c
         IN  SubSeq(UpperChars, i, i)
    ELSE c

RECURSIVE toUpperCase(_)
toUpperCase(s) ==
    IF Len(s) = 0 THEN ""
    ELSE UpperChar(SubSeq(s, 1, 1)) \o toUpperCase(SubSeq(s, 2, Len(s)))

RECURSIVE trim(_)
trim(s) ==
    IF Len(s) = 0 THEN ""
    ELSE IF SubSeq(s, 1, 1) = " " THEN trim(SubSeq(s, 2, Len(s)))
    ELSE IF SubSeq(s, Len(s), Len(s)) = " " THEN trim(SubSeq(s, 1, Len(s) - 1))
    ELSE s

\* one line of arp-scan output, by the groups deviceRegex captures
ArpLine(matches, ip, mac, vendor) ==
    [matches |-> matches, ip |-> ip, mac |-> mac, vendor |-> vendor]

\* an ARP observation has no ports key and a null hostname
arpDevice(line, t) ==
    Device(line.ip, toUpperCase(line.mac), OrElse(trim(line.vendor), "Unknown"),
           NULL, "up", FALSE, <<>>, "arp-scan", t)

RECURSIVE parseArpOutput(_, _)
parseArpOutput(lines, t) ==
    IF lines = <<>> THEN <<>>
    ELSE (IF Head(lines).matches THEN <<arpDevice(Head(lines), t)>> ELSE <<>>)
         \o parseArpOutput(Tail(lines), t)

\* one <host> element of nmap XML, by the groups the regexes capture
\* (NULL where the regex does not match)
NmapHost(status, ip, mac, vendor, hostname, ports) ==
    [status |-> status, ip |-> ip, mac |-> mac, vendor |-> vendor,
     hostname |-> hostname, ports |-> ports]

\* an nmap observation has a ports array and no discoveryMethod key
nmapDevice(host, t) ==
    Device(host.ip,
           host.mac,
           IF host.mac # NULL THEN OrElse(host.vendor, "Unknown") ELSE NULL,
           host.hostname,
           IF host.status # NULL THEN host.status ELSE "unknown",
           TRUE, host.ports, "undefined", t)

\* parseNmapOutput with the filter device.status === 'up' alone
RECURSIVE parseNmapOutput_keepsNoIp(_, _)
parseNmapOutput_keepsNoIp(hosts, t) ==
    IF hosts = <<>> THEN <<>>
    ELSE LET device == nmapDevice(Head(hosts), t)
         IN  (IF device.status = "up" THEN <<device>> ELSE <<>>)
             \o parseNmapOutput_keepsNoIp(Tail(hosts), t)

RECURSIVE parseNmapOutput(_, _)
parseNmapOutput(hosts, t) ==
    IF hosts = <<>> THEN <<>>
    ELSE LET device == nmapDevice(Head(hosts), t)
         IN  (IF Truthy(device.ip) /\ device.status = "up" THEN <<device>> ELSE <<>>)
             \o parseNmapOutput(Tail(hosts), t)

(***************************************************************************)
(* Device store (services/deviceDiscovery.js)                              *)
(***************************************************************************)
\* no observation has been merged yet
noDevice == Device(NULL, NULL, NULL, NULL, "unknown", FALSE, <<>>, "undefined", NoTime)

\* newDevice.ports.length on an observation without a ports key is a TypeError
mergeThrows(store, newDevice) ==
    has(store, newDevice.ip) /\ ~newDevice.hasPorts

\* mergeDevice with ports: newDevice.ports, whatever its length
mergeDevice_portsOverwritten(store, newDevice) ==
    IF has(store, newDevice.ip)
    THEN LET existingDevice == store[newDevice.ip]
         IN  mapSet(store, newDevice.ip,
                 [ip |-> newDevice.ip,
                  status |-> newDevice.status,
                  discoveryMethod |->
                      IF newDevice.discoveryMethod # "undefined"
                      THEN newDevice.discoveryMethod
                      ELSE existingDevice.discoveryMethod,
                  mac |-> OrElse(newDevice.mac, existingDevice.mac),
                  vendor |-> OrElse(newDevice.vendor, existingDevice.vendor),
                  hostname |-> OrElse(newDevice.hostname, existingDevice.hostname),
                  hasPorts |-> newDevice.hasPorts,
                  ports |-> newDevice.ports,
                  lastSeen |-> newDevice.lastSeen])
    ELSE mapSet(store, newDevice.ip, newDevice)

\* the store after mergeDevice(newDevice) returned normally
mergeDevice(store, newDevice) ==
    IF has(store, newDevice.ip)
    THEN LET existingDevice == store[newDevice.ip]
             newHasPorts == newDevice.hasPorts /\ Len(newDevice.ports) > 0
         IN  mapSet(store, newDevice.ip,
                 [ip |-> newDevice.ip,
                  status |-> newDevice.status,
                  discoveryMethod |->
                      IF newDevice.discoveryMethod # "undefined"
                      THEN newDevice.discoveryMethod
                      ELSE existingDevice.discoveryMethod,
                  mac |-> OrElse(newDevice.mac, existingDevice.mac),
                  vendor |-> OrElse(newDevice.vendor, existingDevice.vendor),
                  hostname |-> OrElse(newDevice.hostname, existingDevice.hostname),
                  hasPorts |-> IF newHasPorts THEN TRUE ELSE existingDevice.hasPorts,
                  ports |-> IF newHasPorts THEN newDevice.ports ELSE existingDevice.ports,
                  lastSeen |-> newDevice.lastSeen])
    ELSE mapSet(store, newDevice.ip, newDevice)

\* devices.forEach(device => { mergeDevice(device); emitNewDevice(device) }):
\* the store and the emissions when the loop ends or throws
RECURSIVE mergeAll(_, _, _)
mergeAll(store, last, devices) ==
    IF devices = <<>>
    THEN [store |-> store, last |-> last, threw |-> FALSE, emitted |-> <<>>]
    ELSE IF mergeThrows(store, Head(devices))
    THEN [store |-> store, last |-> last, threw |-> TRUE, emitted |-> <<>>]
    ELSE LET rest == mergeAll(mergeDevice(store, Head(devices)), Head(devices),
                              Tail(devices))
         IN  [rest EXCEPT !.emitted = emitNewDevice(Head(devices)) \o rest.emitted]

\* Array.from(discoveredDevices.values()), as the set of the records
getAllDevices(store) == {store[ip] : ip \in DOMAIN store}

\* the keys of the store in the order the route walks results.devices
RECURSIVE ipsOf(_)
ipsOf(store) ==
    IF DOMAIN store = {} THEN <<>>
    ELSE LET ip == CHOOSE k \in DOMAIN store : TRUE
         IN  <<ip>> \o ipsOf([k \in DOMAIN store \ {ip} |-> store[k]])

(***************************************************************************)
(* Access lists (portMonitoring.js)                                        *)
(***************************************************************************)
isWhitelisted(ip) == ip \in whitelist

isBlacklisted(ip) == ip \in blacklist

addToWhitelist(ip) ==
    /\ whitelist' = whitelist \cup {ip}
    /\ blacklist' = blacklist \ {ip}
    /\ response' = Response("addToWhitelist", ip, "ok")
    /\ emitted' = <<>>
    /\ UNCHANGED <<monVars, storeVars, flightVars, clockVars>>

removeFromWhitelist(ip) ==
    /\ whitelist' = whitelist \ {ip}
    /\ response' = Response("removeFromWhitelist", ip, "ok")
    /\ emitted' = <<>>
    /\ UNCHANGED <<blacklist, monVars, storeVars, flightVars, clockVars>>

\* addToBlacklist without the whitelist.delete(ip)
addToBlacklist_keepsWhitelist(ip) ==
    /\ blacklist' = blacklist \cup {ip}
    /\ response' = Response("addToBlacklist", ip, "ok")
    /\ emitted' = <<>>
    /\ UNCHANGED <<whitelist, monVars, storeVars, flightVars, clockVars>>

addToBlacklist(ip) ==
    /\ blacklist' = blacklist \cup {ip}
    /\ whitelist' = whitelist \ {ip}
    /\ response' = Response("addToBlacklist", ip, "ok")
    /\ emitted' = <<>>
    /\ UNCHANGED <<monVars, storeVars, flightVars, clockVars>>

removeFromBlacklist(ip) ==
    /\ blacklist' = blacklist \ {ip}
    /\ response' = Response("removeFromBlacklist", ip, "ok")
    /\ emitted' = <<>>
    /\ UNCHANGED <<whitelist, monVars, storeVars, flightVars, clockVars>>

(***************************************************************************)
(* Clock: Date.now() / new Date()                                          *)
(***************************************************************************)
Tick(d) ==
    /\ now' = now + d
    /\ ticks' = ticks + 1
    /\ emitted' = <<>>
    /\ UNCHANGED <<accessVars, monVars, storeVars, flightVars, response>>

(***************************************************************************)
(* What an external scan hands back: it fails, or it prints output         *)
(***************************************************************************)
ScanFailed == [failed |-> TRUE, output |-> <<>>]
ScanOutput(output) == [failed |-> FALSE, output |-> output]

(***************************************************************************)
(* Monitoring scan: scanDevicePorts of portMonitoring.js behind            *)
(* POST /monitoring/scan/device                                            *)
(***************************************************************************)
\* up to the await of fastPortScan / portScan
scanDevicePorts_dispatch(ip) ==
    /\ emitted' = <<>>
    /\ IF ~Truthy(ip)
       THEN /\ response' = Response("scanDevicePorts", ip, "IP address is required")
            /\ UNCHANGED <<accessVars, monVars, storeVars, flightVars, clockVars>>
       ELSE IF isBlacklisted(ip)
       THEN /\ response' = Response("scanDevicePorts", ip, "Device is blacklisted")
            /\ UNCHANGED <<accessVars, monVars, storeVars, flightVars, clockVars>>
       ELSE /\ monInFlight' = monInFlight \cup {ip}
            /\ UNCHANGED <<accessVars, monVars, storeVars, discInFlight,
                           discovery, batch, clockVars, response>>

\* what scanDevicePorts returns or throws once the awaited scan is back
scanDevicePorts_status(outcome) ==
    IF outcome.failed THEN "scan failed"
    ELSE IF parseNmapOutput(outcome.output, now) = <<>>
    THEN "No device information returned from scan"
    ELSE "ok"

\* the result object: the parsed device with the findings of the scan
scanResult(ip, deviceInfo, servicesInfo, detectedAttacks, deviceAlerts, t) ==
    [ip |-> deviceInfo.ip, mac |-> deviceInfo.mac, vendor |-> deviceInfo.vendor,
     hostname |-> deviceInfo.hostname, status |-> deviceInfo.status,
     hasPorts |-> deviceInfo.hasPorts, ports |-> deviceInfo.ports,
     discoveryMethod |-> deviceInfo.discoveryMethod, lastSeen |-> deviceInfo.lastSeen,
     scanType |-> "quick",
     totalPorts |-> Len(deviceInfo.ports),
     services |-> servicesInfo.services,
     suspiciousServices |-> servicesInfo.suspiciousServices,
     detectedAttacks |-> detectedAttacks,
     isWhitelisted |-> isWhitelisted(ip),
     isBlacklisted |-> isBlacklisted(ip),
     alerts |-> deviceAlerts,
     lastScanned |-> t]

\* scanDevicePorts_effects with updateScanHistory(ip) in a finally block
scanDevicePorts_effects_recordsAlways(ip, outcome, rnd) ==
    IF scanDevicePorts_status(outcome) # "ok"
    THEN /\ UNCHANGED alerts
         /\ scanHistory' = updateScanHistory(ip, now)
         /\ emitted' = <<>>
    ELSE LET deviceInfo == parseNmapOutput(outcome.output, now)[1]
             servicesInfo == identifyServices(deviceInfo)
             detectedAttacks == detectAttackTypes(ip, deviceInfo, servicesInfo, now)
             alerting == \/ Len(detectedAttacks) > 0
                         \/ Len(servicesInfo.suspiciousServices) > 0
             alert == generateAlert(ip, detectedAttacks, servicesInfo, now, rnd)
             log == IF alerting THEN Append(alerts, alert) ELSE alerts
         IN  /\ alerts' = log
             /\ scanHistory' = updateScanHistory(ip, now)
             /\ emitted' =
                    (IF alerting THEN emitAlert(alert) ELSE <<>>)
                    \o emitDevicesUpdated({scanResult(ip, deviceInfo, servicesInfo,
                                               detectedAttacks, alertsOf(log, ip), now)})

\* from the return of the awaited scan to the end of scanDevicePorts: what it
\* does to the alert log and the scan history, and what it emits
scanDevicePorts_effects(ip, outcome, rnd) ==
    IF scanDevicePorts_status(outcome) # "ok"
    THEN /\ UNCHANGED monVars
         /\ emitted' = <<>>
    ELSE LET deviceInfo == parseNmapOutput(outcome.output, now)[1]
             servicesInfo == identifyServices(deviceInfo)
             detectedAttacks == detectAttackTypes(ip, deviceInfo, servicesInfo, now)
             alerting == \/ Len(detectedAttacks) > 0
                         \/ Len(servicesInfo.suspiciousServices) > 0
             alert == generateAlert(ip, detectedAttacks, servicesInfo, now, rnd)
             log == IF alerting THEN Append(alerts, alert) ELSE alerts
         IN  /\ alerts' = log
             /\ scanHistory' = updateScanHistory(ip, now)
             /\ emitted' =
                    (IF alerting THEN emitAlert(alert) ELSE <<>>)
                    \o emitDevicesUpdated({scanResult(ip, deviceInfo, servicesInfo,
                                               detectedAttacks, alertsOf(log, ip), now)})

\* the continuation of a scan that POST /monitoring/scan/device started
scanDevicePorts_resume(ip, outcome, rnd) ==
    /\ ip \in monInFlight
    /\ monInFlight' = monInFlight \ {ip}
    /\ UNCHANGED <<accessVars, storeVars, discInFlight, discovery, batch, clockVars>>
    /\ scanDevicePorts_effects(ip, outcome, rnd)
    /\ response' = Response("scanDevicePorts", ip, scanDevicePorts_status(outcome))

(***************************************************************************)
(* Batch scan: scanMultipleDevices of portMonitoring.js behind             *)
(* POST /monitoring/scan/batch                                             *)
(***************************************************************************)
interDeviceDelay == 1000

\* devices: the request's list; i: the index of the device the loop is at;
\* results, errors: the arrays the function returns; skipped: the number of
\* 'Skipping blacklisted device' lines it has logged; wakeAt: when sleep ends
Batch(pc, devices, i, results, errors, skipped, wakeAt) ==
    [pc |-> pc, devices |-> devices, i |-> i, results |-> results,
     errors |-> errors, skipped |-> skipped, wakeAt |-> wakeAt]

BatchError(ip, error) == [ip |-> ip, error |-> error]

\* the index of the first device from i on that is not blacklisted, past the
\* end of the list if there is none
RECURSIVE skipBlacklisted(_, _)
skipBlacklisted(devices, i) ==
    IF i > Len(devices) THEN i
    ELSE IF isBlacklisted(devices[i]) THEN skipBlacklisted(devices, i + 1)
    ELSE i

\* the for loop from device i on: up to the next await of a scan, or to the
\* return of the function
scanMultipleDevices_loop(devices, i, results, errors, skipped) ==
    LET j == skipBlacklisted(devices, i)
        logged == skipped + (j - i)
    IN  IF j > Len(devices)
        THEN /\ batch' = Batch("idle", devices, j, results, errors, logged, NoTime)
             /\ response' = Response("scanMultipleDevices", NULL, "ok")
        ELSE /\ batch' = Batch("scanning", devices, j, results, errors, logged, NoTime)
             /\ UNCHANGED response

scanMultipleDevices_dispatch(devices) ==
    /\ batch.pc = "idle"
    /\ emitted' = <<>>
    /\ UNCHANGED <<accessVars, monVars, storeVars, monInFlight, discInFlight,
                   discovery, clockVars>>
    /\ IF Len(devices) = 0
       THEN /\ response' = Response("scanMultipleDevices", NULL,
                               "Devices array is required")
            /\ UNCHANGED batch
       ELSE scanMultipleDevices_loop(devices, 1, <<>>, <<>>, 0)

\* scanMultipleDevices_resume without the catch: an error of one scan rejects
\* the whole batch
scanMultipleDevices_resume_rethrows(outcome, rnd) ==
    /\ batch.pc = "scanning"
    /\ UNCHANGED <<accessVars, storeVars, monInFlight, discInFlight,
                   discovery, clockVars>>
    /\ LET ip == batch.devices[batch.i]
           status == scanDevicePorts_status(outcome)
       IN  /\ scanDevicePorts_effects(ip, outcome, rnd)
           /\ IF status = "ok"
              THEN /\ batch' = [batch EXCEPT !.pc = "sleeping",
                                             !.results = Append(batch.results, ip),
                                             !.wakeAt = now + interDeviceDelay]
                   /\ UNCHANGED response
              ELSE /\ batch' = [batch EXCEPT !.pc = "idle"]
                   /\ response' = Response("scanMultipleDevices", NULL, status)

\* the scan of device i is back: a result is followed by sleep(1000), an
\* error by the next device at once
scanMultipleDevices_resume(outcome, rnd) ==
    /\ batch.pc = "scanning"
    /\ UNCHANGED <<accessVars, storeVars, monInFlight, discInFlight,
                   discovery, clockVars>>
    /\ LET ip == batch.devices[batch.i]
           status == scanDevicePorts_status(outcome)
       IN  /\ scanDevicePorts_effects(ip, outcome, rnd)
           /\ IF status = "ok"
              THEN /\ batch' = [batch EXCEPT !.pc = "sleeping",
                                             !.results = Append(batch.results, ip),
                                             !.wakeAt = now + interDeviceDelay]
                   /\ UNCHANGED response
              ELSE scanMultipleDevices_loop(batch.devices, batch.i + 1, batch.results,
                       Append(batch.errors, BatchError(ip, status)), batch.skipped)

\* sleep(1000) is over
scanMultipleDevices_wake ==
    /\ batch.pc = "sleeping"
    /\ now >= batch.wakeAt
    /\ emitted' = <<>>
    /\ UNCHANGED <<accessVars, monVars, storeVars, monInFlight, discInFlight,
                   discovery, clockVars>>
    /\ scanMultipleDevices_loop(batch.devices, batch.i + 1, batch.results,
                                batch.errors, batch.skipped)

(***************************************************************************)
(* Device scan: scanDevicePorts of deviceDiscovery.js behind               *)
(* POST /scan/ports                                                        *)
(***************************************************************************)
scanPorts_dispatch(ip) ==
    /\ emitted' = <<>>
    /\ IF ~Truthy(ip)
       THEN /\ response' = Response("scanPorts", ip, "IP address is required")
            /\ UNCHANGED <<accessVars, monVars, storeVars, flightVars, clockVars>>
       ELSE /\ discInFlight' = discInFlight \cup {ip}
            /\ UNCHANGED <<accessVars, monVars, storeVars, monInFlight,
                           discovery, batch, clockVars, response>>

\* scanDevicePorts(ip) of deviceDiscovery.js from the return of fastPortScan:
\* the store it leaves and whether it returns the device, null or throws
deviceScan(store, last, ip, outcome, t) ==
    IF outcome.failed
    THEN [store |-> store, last |-> last, status |-> "Port scan failed"]
    ELSE LET parsedDevices == parseNmapOutput(outcome.output, t)
         IN  IF parsedDevices = <<>>
             THEN [store |-> store, last |-> last,
                   status |-> "Device not found or scan failed"]
             ELSE IF mergeThrows(store, parsedDevices[1])
             THEN [store |-> store, last |-> last, status |-> "Port scan failed"]
             ELSE LET merged == mergeDevice(store, parsedDevices[1])
                  IN  [store |-> merged, last |-> parsedDevices[1],
                       status |-> IF has(merged, ip) THEN "ok"
                                  ELSE "Device not found or scan failed"]

\* the continuation of POST /scan/ports
scanPorts_resume(ip, outcome) ==
    /\ ip \in discInFlight
    /\ discInFlight' = discInFlight \ {ip}
    /\ UNCHANGED <<accessVars, monVars, monInFlight, discovery, batch, clockVars>>
    /\ LET scanned == deviceScan(discoveredDevices, lastMerged, ip, outcome, now)
       IN  /\ discoveredDevices' = scanned.store
           /\ lastMerged' = scanned.last
           /\ response' = Response("scanPorts", ip, scanned.status)
           /\ emitted' = IF scanned.status = "ok"
                         THEN emitDevicesUpdated({scanned.store[ip]})
                         ELSE <<>>

(***************************************************************************)
(* Network scan: POST /scan/network, which runs discoverDevices of         *)
(* deviceDiscovery.js and then scans the ports of every device found       *)
(***************************************************************************)
DiscoveryError(method, error) == [method |-> method, error |-> error]

portScanDelay == 500

Discovery(pc, errors, scanPorts, queue, wakeAt) ==
    [pc |-> pc, errors |-> errors, scanPorts |-> scanPorts,
     queue |-> queue, wakeAt |-> wakeAt]

\* the route up to the await of scanLocalNetwork
discoverDevices_dispatch(network, scanPorts) ==
    /\ discovery.pc = "idle"
    /\ emitted' = <<>>
    /\ IF ~Truthy(network)
       THEN /\ response' = Response("discoverDevices", NULL,
                               "Network parameter is required")
            /\ UNCHANGED <<accessVars, monVars, storeVars, flightVars, clockVars>>
       ELSE /\ discovery' = Discovery("arp", <<>>, scanPorts, <<>>, NoTime)
            /\ UNCHANGED <<accessVars, monVars, storeVars, monInFlight,
                           discInFlight, batch, clockVars, response>>

\* the ARP results are merged, up to the await of quickHostDiscovery
discoverDevices_arp(outcome) ==
    /\ discovery.pc = "arp"
    /\ UNCHANGED <<accessVars, monVars, monInFlight, discInFlight, batch,
                   clockVars, response>>
    /\ IF outcome.failed
       THEN /\ discovery' = [discovery EXCEPT !.pc = "nmap", !.errors =
                   Append(discovery.errors, DiscoveryError("arp-scan", "scan failed"))]
            /\ UNCHANGED storeVars
            /\ emitted' = <<>>
       ELSE LET merged == mergeAll(discoveredDevices, lastMerged,
                                   parseArpOutput(outcome.output, now))
            IN  /\ discoveredDevices' = merged.store
                /\ lastMerged' = merged.last
                /\ emitted' = merged.emitted
                /\ discovery' = [discovery EXCEPT !.pc = "nmap", !.errors =
                       IF merged.threw
                       THEN Append(discovery.errors, DiscoveryError("arp-scan", "TypeError"))
                       ELSE discovery.errors]

\* the end of the route: the final devices-updated and the HTTP response
scanNetwork_finish(store, errors, before) ==
    /\ discovery' = Discovery("idle", errors, FALSE, <<>>, NoTime)
    /\ emitted' = before \o emitDevicesUpdated(getAllDevices(store))
    /\ response' = Response("discoverDevices", NULL, "ok")

\* the nmap results are merged, discoverDevices returns, and the route emits
\* the devices and goes on to the port scan of the first of them
discoverDevices_nmap(outcome) ==
    /\ discovery.pc = "nmap"
    /\ UNCHANGED <<accessVars, monVars, monInFlight, discInFlight, batch, clockVars>>
    /\ LET merged == IF outcome.failed
                     THEN [store |-> discoveredDevices, last |-> lastMerged,
                           threw |-> FALSE, emitted |-> <<>>]
                     ELSE mergeAll(discoveredDevices, lastMerged,
                                   parseNmapOutput(outcome.output, now))
           errors == IF outcome.failed
                     THEN Append(discovery.errors, DiscoveryError("nmap", "scan failed"))
                     ELSE IF merged.threw
                     THEN Append(discovery.errors, DiscoveryError("nmap", "TypeError"))
                     ELSE discovery.errors
           sent == merged.emitted \o emitDevicesUpdated(getAllDevices(merged.store))
       IN  /\ discoveredDevices' = merged.store
           /\ lastMerged' = merged.last
           /\ IF discovery.scanPorts /\ DOMAIN merged.store # {}
              THEN /\ discovery' = Discovery("ports", errors, TRUE,
                                             ipsOf(merged.store), NoTime)
                   /\ emitted' = sent
                   /\ UNCHANGED response
              ELSE scanNetwork_finish(merged.store, errors, sent)

\* the port scan of the device at the head of the queue is back: a result is
\* followed by the delay, an error by the next device at once
scanNetwork_portScan(outcome) ==
    /\ discovery.pc = "ports"
    /\ UNCHANGED <<accessVars, monVars, monInFlight, discInFlight, batch, clockVars>>
    /\ LET scanned == deviceScan(discoveredDevices, lastMerged,
                                 Head(discovery.queue), outcome, now)
       IN  /\ discoveredDevices' = scanned.store
           /\ lastMerged' = scanned.last
           /\ IF scanned.status # "Port scan failed"
              THEN /\ discovery' = [discovery EXCEPT !.pc = "delay",
                                                     !.queue = Tail(discovery.queue),
                                                     !.wakeAt = now + portScanDelay]
                   /\ emitted' = <<>>
                   /\ UNCHANGED response
              ELSE IF Tail(discovery.queue) # <<>>
              THEN /\ discovery' = [discovery EXCEPT !.queue = Tail(discovery.queue)]
                   /\ emitted' = <<>>
                   /\ UNCHANGED response
              ELSE scanNetwork_finish(scanned.store, discovery.errors, <<>>)

\* the delay after a port scan has passed
scanNetwork_delay ==
    /\ discovery.pc = "delay"
    /\ now >= discovery.wakeAt
    /\ UNCHANGED <<accessVars, monVars, storeVars, monInFlight, discInFlight,
                   batch, clockVars>>
    /\ IF discovery.queue # <<>>
       THEN /\ discovery' = [discovery EXCEPT !.pc = "ports", !.wakeAt = NoTime]
            /\ emitted' = <<>>
            /\ UNCHANGED response
       ELSE scanNetwork_finish(discoveredDevices, discovery.errors, <<>>)

\* GET /devices
getDevices ==
    /\ emitted' = emitDevicesUpdated(getAllDevices(discoveredDevices))
    /\ response' = Response("getDevices", NULL, "ok")
    /\ UNCHANGED <<accessVars, monVars, storeVars, flightVars, clockVars>>

\* DELETE /devices
clearDevices ==
    /\ discoveredDevices' = emptyMap
    /\ UNCHANGED lastMerged
    /\ emitted' = emitDevicesUpdated({})
    /\ response' = Response("clearDevices", NULL, "ok")
    /\ UNCHANGED <<accessVars, monVars, flightVars, clockVars>>

(***************************************************************************)
(* Threat analysis of the stored devices: analyzeAllDevices of             *)
(* portMonitoring.js behind POST /monitoring/analyze                       *)
(***************************************************************************)
\* the entry analyzeAllDevices pushes to threatsFound for a device
Threat(device, attacks, servicesInfo) ==
    [ip |-> device.ip, hostname |-> device.hostname, attacks |-> attacks,
     suspiciousServices |-> servicesInfo.suspiciousServices]

\* the devices with a port for which the detection finds something
threatening(store, t) ==
    {device \in getAllDevices(store) :
        /\ device.hasPorts /\ Len(device.ports) > 0
        /\ LET servicesInfo == identifyServices(device)
               attacks == detectAttackTypes(device.ip, device, servicesInfo, t)
           IN  Len(attacks) > 0 \/ Len(servicesInfo.suspiciousServices) > 0}

\* the object analyzeAllDevices returns, with threats as the set of the entries
analysis(store, t) ==
    LET threats == {Threat(device,
                           detectAttackTypes(device.ip, device,
                                             identifyServices(device), t),
                           identifyServices(device)) :
                        device \in threatening(store, t)}
    IN  [timestamp |-> t,
         devicesAnalyzed |-> Cardinality(getAllDevices(store)),
         threatsFound |-> Cardinality(threats),
         threats |-> threats]

\* analyzeAllDevices calling generateAlert for every threat it finds
analyzeAllDevices_alerts ==
    LET found == analysis(discoveredDevices, now)
        raised == [k \in 1..Len(ipsOf(discoveredDevices)) |->
                      LET device == discoveredDevices[ipsOf(discoveredDevices)[k]]
                      IN  generateAlert(device.ip,
                              detectAttackTypes(device.ip, device,
                                                identifyServices(device), now),
                              identifyServices(device), now, 0)]
        new == SelectSeq(raised, LAMBDA a :
                   \E threat \in found.threats : threat.ip = a.ip)
    IN  /\ response' = [op |-> "analyzeAllDevices", ip |-> NULL, status |-> "ok",
                        result |-> found]
        /\ alerts' = alerts \o new
        /\ emitted' = [k \in 1..Len(new) |-> emitAlert(new[k])[1]]
        /\ UNCHANGED <<accessVars, scanHistory, storeVars, flightVars, clockVars>>

analyzeAllDevices ==
    /\ response' = [op |-> "analyzeAllDevices", ip |-> NULL, status |-> "ok",
                    result |-> analysis(discoveredDevices, now)]
    /\ emitted' = <<>>
    /\ UNCHANGED <<accessVars, monVars, storeVars, flightVars, clockVars>>

(***************************************************************************)
(* Alert log operations (portMonitoring.js)                                *)
(***************************************************************************)
\* generateAlert called with the findings of one detection
generateAlert_call(ip, attacks, servicesInfo, rnd) ==
    /\ alerts' = Append(alerts, generateAlert(ip, attacks, servicesInfo, now, rnd))
    /\ emitted' = emitAlert(generateAlert(ip, attacks, servicesInfo, now, rnd))
    /\ UNCHANGED <<accessVars, scanHistory, storeVars, flightVars,
                   clockVars, response>>

\* identifyServices called with a device: the response holds the device and
\* the two arrays returned
identifyServices_call(device) ==
    /\ response.status = "called"
    /\ response' = [op |-> "identifyServices", ip |-> device.ip, status |-> "ok",
                    device |-> device, result |-> identifyServices(device)]
    /\ emitted' = <<>>
    /\ UNCHANGED <<accessVars, monVars, storeVars, flightVars, clockVars>>

\* alerts.find(a => a.id === alertId): the index of the first match, 0 if none
findAlert(alertId) ==
    IF \E i \in 1..Len(alerts) : alerts[i].id = alertId
    THEN CHOOSE i \in 1..Len(alerts) :
             /\ alerts[i].id = alertId
             /\ \A j \in 1..(i - 1) : alerts[j].id # alertId
    ELSE 0

\* acknowledgeAlert with alert.acknowledged = !alert.acknowledged
acknowledgeAlert_toggles(alertId) ==
    /\ LET i == findAlert(alertId)
       IN  alerts' = IF i # 0
                     THEN [alerts EXCEPT ![i].acknowledged = ~alerts[i].acknowledged,
                                         ![i].acknowledgedAt = now]
                     ELSE alerts
    /\ response' = Response("acknowledgeAlert", NULL, "ok")
    /\ emitted' = <<>>
    /\ UNCHANGED <<accessVars, scanHistory, storeVars, flightVars, clockVars>>

\* acknowledgeAlert without the if (alert) guard: a miss is a TypeError
acknowledgeAlert_unguarded(alertId) ==
    /\ LET i == findAlert(alertId)
       IN  /\ alerts' = IF i # 0
                        THEN [alerts EXCEPT ![i].acknowledged = TRUE,
                                            ![i].acknowledgedAt = now]
                        ELSE alerts
           /\ response' = IF i # 0
                          THEN Response("acknowledgeAlert", NULL, "ok")
                          ELSE Response("acknowledgeAlert", NULL, "TypeError")
    /\ emitted' = <<>>
    /\ UNCHANGED <<accessVars, scanHistory, storeVars, flightVars, clockVars>>

acknowledgeAlert(alertId) ==
    /\ LET i == findAlert(alertId)
       IN  alerts' = IF i # 0
                     THEN [alerts EXCEPT ![i].acknowledged = TRUE,
                                         ![i].acknowledgedAt = now]
                     ELSE alerts
    /\ response' = Response("acknowledgeAlert", NULL, "ok")
    /\ emitted' = <<>>
    /\ UNCHANGED <<accessVars, scanHistory, storeVars, flightVars, clockVars>>

clearAlerts ==
    /\ alerts' = <<>>
    /\ response' = Response("clearAlerts", NULL, "ok")
    /\ emitted' = <<>>
    /\ UNCHANGED <<accessVars, scanHistory, storeVars, flightVars, clockVars>>

(***************************************************************************)
(* Initial state: the module-level declarations                            *)
(***************************************************************************)
Init ==
    /\ whitelist = {}
    /\ blacklist = {}
    /\ alerts = <<>>
    /\ scanHistory = emptyMap
    /\ discoveredDevices = emptyMap
    /\ lastMerged = noDevice
    /\ monInFlight = {}
    /\ discInFlight = {}
    /\ discovery = Discovery("idle", <<>>, FALSE, <<>>, NoTime)
    /\ batch = Batch("idle", <<>>, 0, <<>>, <<>>, 0, NoTime)
    /\ emitted = <<>>
    /\ now = 0
    /\ ticks = 0
    /\ response = Response("init", NULL, "ok")

(***************************************************************************)
(* Inputs                                                                  *)
(***************************************************************************)
Telnet == PortObservation(23, "tcp", "open", "telnet", "")
Http == PortObservation(80, "tcp", "open", "http", "")

UpHost(ip, ports) == NmapHost("up", ip, NULL, NULL, NULL, ports)

\* what a port scan of ip can print
PortScanOutcomes(ip) ==
    {ScanFailed, ScanOutput(<<>>),
     ScanOutput(<<UpHost(ip, <<>>)>>), ScanOutput(<<UpHost(ip, <<Telnet>>)>>)}

historyOf(ip) == IF has(scanHistory, ip) THEN scanHistory[ip] ELSE <<>>

(***************************************************************************)
(* Spec: the access lists against the two scan entry points                *)
(***************************************************************************)
Next ==
    \/ \E ip \in IPs : addToWhitelist(ip)
    \/ \E ip \in IPs : removeFromWhitelist(ip)
    \/ \E ip \in IPs : addToBlacklist(ip)
    \/ \E ip \in IPs : removeFromBlacklist(ip)
    \/ \E ip \in IPs : ip \notin monInFlight /\ scanDevicePorts_dispatch(ip)
    \/ \E ip \in IPs, rnd \in 0..MaxRandom : \E outcome \in PortScanOutcomes(ip) :
           /\ Len(historyOf(ip)) < MaxScans
           /\ scanDevicePorts_resume(ip, outcome, rnd)
    \/ \E ip \in IPs : ip \notin discInFlight /\ scanPorts_dispatch(ip)
    \/ \E ip \in IPs : \E outcome \in PortScanOutcomes(ip) :
           scanPorts_resume(ip, outcome)
    \/ getDevices
    \/ \E d \in ShortSteps : ticks < MaxTicks /\ Tick(d)

Spec == Init /\ [][Next]_vars

\* C1: no IP is ever on the whitelist and on the blacklist at once, whatever
\* sequence of add and remove calls has run.
C1_MutualExclusion ==
    \A ip \in IPs : ~(isWhitelisted(ip) /\ isBlacklisted(ip))

\* an add to the blacklist has just run and the IP is on the blacklist only
C1_Witness ==
    /\ response.op = "addToBlacklist"
    /\ response.ip \in blacklist
    /\ response.ip \notin whitelist

\* C2: a scan entry point called for a blacklisted IP fails with the denied
\* error and leaves the device store, the scan history and the alert log
\* alone (and so dispatches no scan).
C2_DeniedGate ==
    [][\A ip \in IPs :
          (isBlacklisted(ip) /\ (scanDevicePorts_dispatch(ip) \/ scanPorts_dispatch(ip)))
          => /\ response'.status = "Device is blacklisted"
             /\ UNCHANGED <<discoveredDevices, scanHistory, alerts>>
             /\ UNCHANGED <<monInFlight, discInFlight>>]_vars

\* C3: an alert is never appended for an IP that is on the blacklist at the
\* moment of the append.
C3_NoAlertForBlacklisted ==
    [][\A i \in (Len(alerts) + 1)..Len(alerts') : alerts'[i].ip \notin blacklist']_vars

\* C5: from the empty state, one monitoring scan that reports only 23/tcp open
\* telnet flags the port as commonly exploited, finds Suspicious Ports Open
\* (medium) and records one unacknowledged alert of severity medium.
C5_TelnetScenario ==
    [][\A ip \in IPs, rnd \in 0..MaxRandom :
          (/\ alerts = <<>>
           /\ scanHistory = emptyMap
           /\ scanDevicePorts_resume(ip, ScanOutput(<<UpHost(ip, <<Telnet>>)>>), rnd))
          => /\ Len(alerts') = 1
             /\ Len(alerts'[1].suspiciousServices) = 1
             /\ alerts'[1].suspiciousServices[1].port = 23
             /\ alerts'[1].suspiciousServices[1].reason = "Commonly exploited port"
             /\ \E k \in 1..Len(alerts'[1].attacks) :
                    /\ alerts'[1].attacks[k].type = "Suspicious Ports Open"
                    /\ alerts'[1].attacks[k].severity = "medium"
             /\ alerts'[1].severity = "medium"
             /\ alerts'[1].acknowledged = FALSE]_vars

\* C14: when a monitoring scan of ip completes successfully, the device store
\* holds a record for ip whose ports are those the scan reported.
C14_MergedBeforeDetection ==
    [][\A ip \in IPs, rnd \in 0..MaxRandom : \A outcome \in PortScanOutcomes(ip) :
          (/\ scanDevicePorts_resume(ip, outcome, rnd)
           /\ response'.status = "ok")
          => /\ has(discoveredDevices', ip)
             /\ discoveredDevices'[ip].ports =
                    parseNmapOutput(outcome.output, now)[1].ports]_vars

\* the records a devices-updated emission carries are those of the store
snapshotSent(emissions, store) ==
    \A k \in 1..Len(emissions) :
        emissions[k].event = "devices-updated" =>
            emissions[k].payload = getAllDevices(store)

\* C15: every devices-updated emission carries the full set of the records the
\* store holds when it is emitted, and a device scan or a clear that changes
\* the store emits devices-updated.
C15_DevicesUpdatedSnapshot ==
    [][/\ snapshotSent(emitted', discoveredDevices')
       /\ \A ip \in IPs : \A outcome \in PortScanOutcomes(ip) :
              (scanPorts_resume(ip, outcome) /\ discoveredDevices' # discoveredDevices)
              => eventsOf(emitted', "devices-updated") # <<>>]_vars

(***************************************************************************)
(* SpecWindow: bursts of monitoring scans of one IP against the clock      *)
(***************************************************************************)
BenignOutcomes(ip) == {ScanOutput(<<UpHost(ip, <<>>)>>)}

NextWindow ==
    \/ \E ip \in IPs : ip \notin monInFlight /\ scanDevicePorts_dispatch(ip)
    \/ \E ip \in IPs, rnd \in 0..MaxRandom : \E outcome \in BenignOutcomes(ip) :
           /\ Len(updateScanHistory(ip, now)[ip]) <= MaxBurst
           /\ scanDevicePorts_resume(ip, outcome, rnd)
    \/ \E d \in TickSteps : ticks < MaxTicks + 1 /\ Tick(d)

SpecWindow == Init /\ [][NextWindow]_vars

\* C4: the frequency of an IP counts exactly the recorded scans that lie inside
\* the rolling window ending now: 11 after a burst of 11, and 0 once the window
\* has passed without a further scan.
C4_WindowCorrectness ==
    \A ip \in IPs :
        getScanFrequency(ip).count =
            Cardinality({i \in 1..Len(historyOf(ip)) :
                            now - historyOf(ip)[i] < portScanTimeWindow})

(***************************************************************************)
(* SpecSeverity: generateAlert on every list of findings, on a fresh log   *)
(***************************************************************************)
FindingSamples(t) ==
    {Finding("Port Scan Attack", "high", <<"Device scanned", 11, 60000>>, <<>>, <<>>, t),
     Finding("Unusual Port Activity", "medium",
             <<"Abnormally high number of open ports", 51>>, <<>>, <<>>, t),
     Finding("Other", "low", <<"Other">>, <<>>, <<>>, t)}

FindingLists(t) == UNION {[1..n -> FindingSamples(t)] : n \in 0..MaxFindings}

ServicesSamples ==
    {identifyServices(nmapDevice(UpHost("192.168.1.50", ports), 0)) :
         ports \in {<<>>, <<Telnet>>}}

NextSeverity ==
    \/ \E ip \in IPs, rnd \in 0..MaxRandom :
           \E attacks \in FindingLists(now), servicesInfo \in ServicesSamples :
               /\ alerts = <<>>
               /\ Len(attacks) > 0 \/ Len(servicesInfo.suspiciousServices) > 0
               /\ generateAlert_call(ip, attacks, servicesInfo, rnd)
    \/ clearAlerts
    \/ \E d \in ShortSteps : ticks < MaxTicks /\ Tick(d)

SpecSeverity == Init /\ [][NextSeverity]_vars

severityIndexes(alert, severity) ==
    {k \in 1..Len(alert.attacks) : alert.attacks[k].severity = severity}

\* C6: the severity stored in an alert is high if a finding is high, else high
\* if at least two findings are medium, else medium if exactly one is medium,
\* else low.
C6_Severity ==
    \A i \in 1..Len(alerts) :
        alerts[i].severity =
            IF severityIndexes(alerts[i], "high") # {} THEN "high"
            ELSE IF Cardinality(severityIndexes(alerts[i], "medium")) >= 2 THEN "high"
            ELSE IF Cardinality(severityIndexes(alerts[i], "medium")) = 1 THEN "medium"
            ELSE "low"

\* an alert recorded for two medium findings and no high one
C6_Witness ==
    \E i \in 1..Len(alerts) :
        /\ severityIndexes(alerts[i], "high") = {}
        /\ Cardinality(severityIndexes(alerts[i], "medium")) = 2
        /\ alerts[i].severity = "high"

(***************************************************************************)
(* SpecAlerts: the alert log under scans, acknowledgements and clears      *)
(***************************************************************************)
UnknownAlertId == <<NoTime, 0>>

AlertIds == {alerts[i].id : i \in 1..Len(alerts)} \cup {UnknownAlertId}

AlertingOutcomes(ip) ==
    {ScanOutput(<<UpHost(ip, <<>>)>>), ScanOutput(<<UpHost(ip, <<Telnet>>)>>)}

NextAlerts ==
    \/ \E ip \in IPs : ip \notin monInFlight /\ scanDevicePorts_dispatch(ip)
    \/ \E ip \in IPs, rnd \in 0..MaxRandom : \E outcome \in AlertingOutcomes(ip) :
           /\ Len(historyOf(ip)) < MaxScans
           /\ scanDevicePorts_resume(ip, outcome, rnd)
    \/ \E alertId \in AlertIds : acknowledgeAlert(alertId)
    \/ clearAlerts
    \/ \E ip \in IPs : addToBlacklist(ip)
    \/ \E ip \in IPs : removeFromBlacklist(ip)
    \/ \E d \in ShortSteps : ticks < MaxTicks + 1 /\ Tick(d)

SpecAlerts == Init /\ [][NextAlerts]_vars

\* C7: acknowledging an alert that is already acknowledged leaves acknowledged
\* true and acknowledgedAt at the value the first acknowledgement gave it.
C7_AcknowledgeIdempotent ==
    [][\A alertId \in AlertIds :
          (/\ findAlert(alertId) # 0
           /\ alerts[findAlert(alertId)].acknowledged
           /\ acknowledgeAlert(alertId))
          => /\ alerts'[findAlert(alertId)].acknowledged
             /\ alerts'[findAlert(alertId)].acknowledgedAt =
                    alerts[findAlert(alertId)].acknowledgedAt]_vars

\* C8: acknowledgeAlert with an id no alert has returns normally and changes
\* no alert, nor the device store, the scan history or the access lists.
C8_UnknownAlertNoOp ==
    [][\A alertId \in AlertIds :
          (/\ \A i \in 1..Len(alerts) : alerts[i].id # alertId
           /\ acknowledgeAlert(alertId))
          => /\ response'.status = "ok"
             /\ alerts' = alerts
             /\ UNCHANGED <<discoveredDevices, scanHistory, whitelist, blacklist>>]_vars

\* an acknowledgement of an unknown id has run on a log that holds an alert
\* nobody has acknowledged
C8_Witness ==
    /\ response.op = "acknowledgeAlert"
    /\ Len(alerts) > 0
    /\ \A i \in 1..Len(alerts) : ~alerts[i].acknowledged

\* C17: the security-alert emissions of a step are the alerts the step appended
\* to the log, one emission per alert, carrying it, in the order of the appends;
\* a step that appends nothing emits none.
C17_AlertAnnounced ==
    [][LET sent == eventsOf(emitted', "security-alert")
           appended == IF Len(alerts') > Len(alerts)
                       THEN SubSeq(alerts', Len(alerts) + 1, Len(alerts'))
                       ELSE <<>>
       IN  /\ Len(sent) = Len(appended)
           /\ \A k \in 1..Len(sent) : sent[k].payload = appended[k]]_vars

\* the step that appended the second alert of the log has announced it
C17_Witness ==
    /\ Len(alerts) = 2
    /\ Len(eventsOf(emitted, "security-alert")) = 1
    /\ eventsOf(emitted, "security-alert")[1].payload = alerts[2]

ContentFields == {"id", "ip", "timestamp", "attacks", "suspiciousServices", "severity"}

\* C19: every step either is clearAlerts or keeps each alert of the log at its
\* position with its id, ip, timestamp, attacks, suspiciousServices and severity
\* and with acknowledged still true if it was true: alerts leave the log only
\* through clearAlerts.
C19_AppendOnly ==
    [][\/ clearAlerts
       \/ /\ Len(alerts') >= Len(alerts)
          /\ \A i \in 1..Len(alerts) :
                 /\ \A field \in ContentFields : alerts'[i][field] = alerts[i][field]
                 /\ alerts[i].acknowledged => alerts'[i].acknowledged]_vars

\* a second alert was appended behind an acknowledged one, and the IP was
\* blacklisted afterwards
C19_Witness ==
    /\ Len(alerts) = 2
    /\ alerts[1].acknowledged
    /\ ~alerts[2].acknowledged
    /\ alerts[2].ip \in blacklist

\* the filters of GET /monitoring/alerts the contract names
SeverityFilters == {"low", "medium", "high"}

\* C21: getAlerts(filter) returns, in the order of the log, all alerts for
\* 'all', the unacknowledged ones for 'unacknowledged', and for a severity
\* filter (low, medium, high) the alerts of that severity.
C21_GetAlertsFilters ==
    /\ getAlerts("all") = alerts
    /\ getAlerts("unacknowledged") = SelectSeq(alerts, LAMBDA a : ~a.acknowledged)
    /\ \A severity \in SeverityFilters :
           getAlerts(severity) = SelectSeq(alerts, LAMBDA a : a.severity = severity)

\* C20: no two alerts of the log have the same id, alerts generated within the
\* same millisecond included.
C20_UniqueIds ==
    \A i, j \in 1..Len(alerts) : i # j => alerts[i].id # alerts[j].id

(***************************************************************************)
(* SpecMerge: the device store under discovery runs, device scans, clears  *)
(***************************************************************************)
ArpOutcomes ==
    {ScanFailed,
     ScanOutput(<<ArpLine(FALSE, NULL, NULL, "Interface: eth0")>>),
     ScanOutput(<<ArpLine(TRUE, "192.168.1.50", "00:1a:2b:3c:4d:5e", "Cisco Systems ")>>),
     ScanOutput(<<ArpLine(TRUE, "192.168.1.50", "00:1a:2b:3c:4d:5e", "")>>)}

HostDiscoveryOutcomes ==
    {ScanFailed,
     ScanOutput(<<NmapHost("up", "192.168.1.50", "00:1A:2B:3C:4D:5E", NULL, "router", <<>>)>>),
     ScanOutput(<<NmapHost("down", "192.168.1.50", NULL, NULL, NULL, <<>>)>>),
     ScanOutput(<<NmapHost("up", NULL, NULL, NULL, NULL, <<Http>>)>>),
     ScanOutput(<<UpHost("192.168.1.50", <<Telnet>>), UpHost("192.168.1.50", <<>>)>>)}

Networks == {NULL, "192.168.1.0/24"}

DeviceScanOutcomes(ip) ==
    {ScanFailed, ScanOutput(<<>>), ScanOutput(<<UpHost(ip, <<>>)>>),
     ScanOutput(<<UpHost(ip, <<Telnet>>)>>), ScanOutput(<<UpHost(ip, <<Http>>)>>)}

NextMerge ==
    \/ \E network \in Networks, scanPorts \in BOOLEAN :
           discoverDevices_dispatch(network, scanPorts)
    \/ \E outcome \in ArpOutcomes : discoverDevices_arp(outcome)
    \/ \E outcome \in HostDiscoveryOutcomes : discoverDevices_nmap(outcome)
    \/ /\ discovery.pc = "ports"
       /\ \E outcome \in DeviceScanOutcomes(Head(discovery.queue)) :
              scanNetwork_portScan(outcome)
    \/ scanNetwork_delay
    \/ \E ip \in IPs : ip \notin discInFlight /\ scanPorts_dispatch(ip)
    \/ \E ip \in IPs : \E outcome \in DeviceScanOutcomes(ip) : scanPorts_resume(ip, outcome)
    \/ clearDevices
    \/ \E d \in ShortSteps : ticks < MaxTicks /\ Tick(d)

SpecMerge == Init /\ [][NextMerge]_vars

\* the observations of ip, among those merged in one step, that report a port
reporting(observations, ip) ==
    {k \in 1..Len(observations) :
        /\ observations[k].ip = ip
        /\ observations[k].hasPorts
        /\ observations[k].ports # <<>>}

firstOf(seq) == IF seq = <<>> THEN <<>> ELSE <<seq[1]>>

lastOf(indexes) == CHOOSE k \in indexes : \A j \in indexes : j <= k

\* after the observations are merged, the stored ports of ip are those of the
\* last observation that reports a port, and the earlier stored ports if none does
PortsFollow(observations, ip) ==
    has(discoveredDevices', ip) =>
        IF reporting(observations, ip) # {}
        THEN discoveredDevices'[ip].ports =
                 observations[lastOf(reporting(observations, ip))].ports
        ELSE IF has(discoveredDevices, ip)
        THEN discoveredDevices'[ip].ports = discoveredDevices[ip].ports
        ELSE discoveredDevices'[ip].ports = <<>>

\* C9: an observation with an empty port list never erases stored ports; the
\* stored ports of an IP are always those of the most recent observation of it
\* that reported at least one port.
C9_NonErasure ==
    [][\A ip \in IPs :
          /\ \A outcome \in DeviceScanOutcomes(ip) :
                 scanPorts_resume(ip, outcome) =>
                     PortsFollow(firstOf(parseNmapOutput(outcome.output, now)), ip)
          /\ discovery.pc = "ports" =>
                 \A outcome \in DeviceScanOutcomes(Head(discovery.queue)) :
                     scanNetwork_portScan(outcome) =>
                         PortsFollow(firstOf(parseNmapOutput(outcome.output, now)), ip)
          /\ \A outcome \in HostDiscoveryOutcomes :
                 discoverDevices_nmap(outcome) =>
                     PortsFollow(parseNmapOutput(outcome.output, now), ip)
          /\ \A outcome \in ArpOutcomes :
                 discoverDevices_arp(outcome) =>
                     PortsFollow(parseArpOutput(outcome.output, now), ip)]_vars

\* an observation with an empty port list was the last one merged, and the
\* record of its IP still holds a port
C9_Witness ==
    /\ lastMerged.hasPorts
    /\ lastMerged.ports = <<>>
    /\ has(discoveredDevices, lastMerged.ip)
    /\ discoveredDevices[lastMerged.ip].ports = <<Telnet>>

\* C10: merging an observation never raises an error, an ARP observation of an
\* IP that already has a record included.
C10_MergeNeverFails ==
    \A k \in 1..Len(discovery.errors) : discovery.errors[k].error # "TypeError"

\* the record of A's IP is A, stored as it came: the store after merge(None, A)
storedAsIs(A) == has(discoveredDevices, A.ip) /\ discoveredDevices[A.ip] = A

\* the step of discoverDevices has caught no error
noNewError == discovery'.errors = discovery.errors

ScalarFields == {"mac", "vendor", "hostname"}

\* the value of a scalar field after the observations were merged in order:
\* the first observation of an unknown IP is stored as it is, and from then on
\* an incoming value replaces the stored one only if it is non-empty
RECURSIVE fieldAfter(_, _, _, _)
fieldAfter(known, previous, observations, field) ==
    IF observations = <<>> THEN previous
    ELSE LET incoming == Head(observations)[field]
         IN  fieldAfter(TRUE,
                        IF Truthy(incoming) \/ ~known THEN incoming ELSE previous,
                        Tail(observations), field)

ScalarsFollow(observations) ==
    \A ip \in IPs, field \in ScalarFields :
        LET mine == SelectSeq(observations, LAMBDA o : o.ip = ip)
        IN  mine # <<>> =>
                /\ has(discoveredDevices', ip)
                /\ discoveredDevices'[ip][field] =
                       fieldAfter(has(discoveredDevices, ip),
                                  IF has(discoveredDevices, ip)
                                  THEN discoveredDevices[ip][field] ELSE NULL,
                                  mine, field)

\* C12: after a merge each of mac, vendor and hostname is the incoming value
\* when that is non-empty and the previous stored value otherwise, and a stored
\* non-empty value is never replaced by an empty or null one.
C12_ScalarsLastKnownGood ==
    [][/\ \A ip \in IPs, field \in ScalarFields :
              (/\ has(discoveredDevices, ip)
               /\ has(discoveredDevices', ip)
               /\ Truthy(discoveredDevices[ip][field]))
              => Truthy(discoveredDevices'[ip][field])
       /\ \A ip \in IPs : \A outcome \in DeviceScanOutcomes(ip) :
              scanPorts_resume(ip, outcome) =>
                  ScalarsFollow(firstOf(parseNmapOutput(outcome.output, now)))
       /\ discovery.pc = "ports" =>
              \A outcome \in DeviceScanOutcomes(Head(discovery.queue)) :
                  scanNetwork_portScan(outcome) =>
                      ScalarsFollow(firstOf(parseNmapOutput(outcome.output, now)))
       /\ \A outcome \in HostDiscoveryOutcomes :
              discoverDevices_nmap(outcome) =>
                  ScalarsFollow(parseNmapOutput(outcome.output, now))
       /\ \A outcome \in ArpOutcomes :
              discoverDevices_arp(outcome) =>
                  ScalarsFollow(parseArpOutput(outcome.output, now))]_vars

LivenessFields == {"status", "lastSeen", "discoveryMethod"}

\* after the observations were merged, the record of an IP that had one holds
\* the status, lastSeen and discoveryMethod of the last observation of that IP
LivenessFollows(observations) ==
    \A ip \in IPs, field \in LivenessFields :
        LET mine == SelectSeq(observations, LAMBDA o : o.ip = ip)
        IN  (mine # <<>> /\ has(discoveredDevices, ip)) =>
                /\ has(discoveredDevices', ip)
                /\ discoveredDevices'[ip][field] = mine[Len(mine)][field]

\* C13: after an observation is merged into an existing record, the stored
\* status, lastSeen and discoveryMethod are those of the incoming observation,
\* for the observations of every adapter.
C13_IncomingWins ==
    [][/\ \A ip \in IPs : \A outcome \in DeviceScanOutcomes(ip) :
              scanPorts_resume(ip, outcome) =>
                  LivenessFollows(firstOf(parseNmapOutput(outcome.output, now)))
       /\ discovery.pc = "ports" =>
              \A outcome \in DeviceScanOutcomes(Head(discovery.queue)) :
                  scanNetwork_portScan(outcome) =>
                      LivenessFollows(firstOf(parseNmapOutput(outcome.output, now)))
       /\ \A outcome \in HostDiscoveryOutcomes :
              discoverDevices_nmap(outcome) =>
                  LivenessFollows(parseNmapOutput(outcome.output, now))
       /\ \A outcome \in ArpOutcomes :
              discoverDevices_arp(outcome) =>
                  LivenessFollows(parseArpOutput(outcome.output, now))]_vars

\* the positions of the new-device emissions for ip among those of a step
newDeviceEmissions(emissions, ip) ==
    {k \in 1..Len(emissions) :
        emissions[k].event = "new-device" /\ emissions[k].payload.ip = ip}

\* C16: a merge step of a discovery run emits new-device for an IP exactly once
\* if the IP enters the device store in that step, and not at all if the IP
\* was stored before.
C16_NewDeviceOnce ==
    [][(\/ \E outcome \in ArpOutcomes : discoverDevices_arp(outcome)
        \/ \E outcome \in HostDiscoveryOutcomes : discoverDevices_nmap(outcome))
       => \A ip \in IPs :
              Cardinality(newDeviceEmissions(emitted', ip)) =
                  IF ~has(discoveredDevices, ip) /\ has(discoveredDevices', ip)
                  THEN 1 ELSE 0]_vars

(***************************************************************************)
(* SpecBatch: batch scans against the clock and the blacklist              *)
(***************************************************************************)
DeviceLists == UNION {[1..n -> IPs] : n \in 0..MaxBatch}

NextBatch ==
    \/ \E devices \in DeviceLists : scanMultipleDevices_dispatch(devices)
    \/ /\ batch.pc = "scanning"
       /\ Len(historyOf(batch.devices[batch.i])) < MaxScans
       /\ \E rnd \in 0..MaxRandom :
              \E outcome \in PortScanOutcomes(batch.devices[batch.i]) :
                  scanMultipleDevices_resume(outcome, rnd)
    \/ scanMultipleDevices_wake
    \/ \E ip \in IPs : addToBlacklist(ip)
    \/ \E ip \in IPs : removeFromBlacklist(ip)
    \/ \E d \in ShortSteps : ticks < MaxTicks + 1 /\ Tick(d)

SpecBatch == Init /\ [][NextBatch]_vars

\* C18: within a batch the scan of a further device is dispatched only by the
\* step that ends the inter-device delay, 1000 ms after the attempt before it
\* ended, never by the step in which that attempt ended; so no two scans of
\* the batch are in flight together.
C18_BatchThrottled ==
    [][(batch.pc # "idle" /\ batch'.pc = "scanning" /\ batch'.i # batch.i)
       => /\ batch.pc = "sleeping"
          /\ now >= batch.wakeAt]_vars

(***************************************************************************)
(* SpecIntake: requests and scan output with and without an IP             *)
(***************************************************************************)
\* req.body.ip: an address, missing, or the empty string
RequestIPs == IPs \cup {NULL, ""}

\* a <host> element without an ipv4 address
NoIpHost == NmapHost("up", NULL, NULL, NULL, NULL, <<Telnet>>)

IntakeOutcomes(ip) ==
    {ScanFailed, ScanOutput(<<NoIpHost>>),
     ScanOutput(<<NoIpHost, UpHost(ip, <<Telnet>>)>>)}

IntakeArpOutcomes ==
    {ScanFailed,
     ScanOutput(<<ArpLine(FALSE, NULL, NULL, "Interface: eth0"),
                  ArpLine(TRUE, "192.168.1.50", "00:1a:2b:3c:4d:5e", "Cisco Systems")>>)}

NextIntake ==
    \/ \E network \in Networks : discoverDevices_dispatch(network, FALSE)
    \/ \E outcome \in IntakeArpOutcomes : discoverDevices_arp(outcome)
    \/ \E outcome \in HostDiscoveryOutcomes : discoverDevices_nmap(outcome)
    \/ \E ip \in RequestIPs : ip \notin discInFlight /\ scanPorts_dispatch(ip)
    \/ \E ip \in IPs : \E outcome \in IntakeOutcomes(ip) : scanPorts_resume(ip, outcome)
    \/ \E ip \in RequestIPs : ip \notin monInFlight /\ scanDevicePorts_dispatch(ip)
    \/ \E ip \in IPs, rnd \in 0..MaxRandom : \E outcome \in IntakeOutcomes(ip) :
           /\ Len(historyOf(ip)) < MaxScans
           /\ scanDevicePorts_resume(ip, outcome, rnd)

SpecIntake == Init /\ [][NextIntake]_vars

\* the scan printed hosts, none of them with an address
lacksIp(outcome) ==
    /\ ~outcome.failed
    /\ outcome.output # <<>>
    /\ \A k \in 1..Len(outcome.output) : ~Truthy(outcome.output[k].ip)

SmbClosed == PortObservation(445, "tcp", "closed", "microsoft-ds", "")

\* 51 open ports, none of them a suspicious one
ManyPorts == [i \in 1..(unusualPortCount + 1) |->
                 PortObservation(8000 + i, "tcp", "open", "unknown", "")]

DetectPortLists ==
    {<<>>, <<Http>>, <<Telnet>>, <<SmbClosed>>, <<Telnet, SmbClosed>>, ManyPorts}

DetectOutcomes(ip) == {ScanOutput(<<UpHost(ip, ports)>>) : ports \in DetectPortLists}

NextDetect ==
    \/ \E ip \in IPs : ip \notin monInFlight /\ scanDevicePorts_dispatch(ip)
    \/ \E ip \in IPs, rnd \in 0..MaxRandom : \E outcome \in DetectOutcomes(ip) :
           /\ Len(historyOf(ip)) < MaxScans
           /\ scanDevicePorts_resume(ip, outcome, rnd)
    \/ clearAlerts
    \/ \E d \in ShortSteps : ticks < MaxTicks /\ Tick(d)

SpecDetect == Init /\ [][NextDetect]_vars

\* the findings of one type among those of a detection
findingsOf(attacks, type) == SelectSeq(attacks, LAMBDA a : a.type = type)

\* C23: a Vulnerable Services finding is produced only for a device with a
\* non-empty suspiciousServices list of which at least one entry was flagged by
\* a version match; a device flagged by port number alone gets none.
C23_VulnerableServiceByVersion ==
    \A i \in 1..Len(alerts) :
        findingsOf(alerts[i].attacks, "Vulnerable Services") # <<>> =>
            \E k \in 1..Len(alerts[i].suspiciousServices) :
                alerts[i].suspiciousServices[k].reason = "Known vulnerable version"

\* the scan results the devices-updated emissions of the last step carry
scanResultsSent ==
    UNION {emitted[k].payload :
               k \in {j \in 1..Len(emitted) : emitted[j].event = "devices-updated"}}

\* C24: a scan produces one Suspicious Ports Open finding (medium) exactly when
\* a reported port in state open is in the suspicious-port set, and the
\* finding lists exactly the open matching ports; closed or filtered ports
\* never cause it.
C24_SuspiciousPortsOpen ==
    \A result \in scanResultsSent :
        LET openMatching == SelectSeq(result.ports, LAMBDA p :
                                p.state = "open" /\ p.port \in suspiciousPorts)
            found == findingsOf(result.detectedAttacks, "Suspicious Ports Open")
        IN  /\ Len(found) = IF openMatching # <<>> THEN 1 ELSE 0
            /\ \A k \in 1..Len(found) :
                   /\ found[k].severity = "medium"
                   /\ found[k].ports = [i \in 1..Len(openMatching) |-> openMatching[i].port]

\* the recorded scans of ip that lie inside the window ending now
scansInWindow(ip) ==
    {i \in 1..Len(historyOf(ip)) : now - historyOf(ip)[i] < portScanTimeWindow}

\* C25: a monitoring scan of ip produces a Port Scan Attack finding exactly
\* when more than 10 scans of ip were recorded within the 60 000 ms ending at
\* the detection; scans older than the window never contribute.
C25_PortScanAttackInWindow ==
    [][\A ip \in IPs, rnd \in 0..MaxRandom : \A outcome \in BenignOutcomes(ip) :
          scanDevicePorts_resume(ip, outcome, rnd) =>
              \A result \in scanResultsSent' :
                  findingsOf(result.detectedAttacks, "Port Scan Attack") # <<>>
                      <=> Cardinality(scansInWindow(ip)) > portScanThreshold]_vars

(***************************************************************************)
(* SpecClassify: identifyServices on port lists with and without versions  *)
(***************************************************************************)
PortSamples ==
    {Telnet, Http, SmbClosed,
     PortObservation(21, "tcp", "open", "ftp", "vsftpd 2.3.4"),
     PortObservation(21, "tcp", "open", "ftp", "vsftpd 3.0.3"),
     PortObservation(80, "tcp", "open", "http", "Apache 2.2.8 (Ubuntu)"),
     PortObservation(8080, "tcp", "open", "http", "Apache 2.2"),
     PortObservation(2121, "tcp", "open", "ftp", "PROFTPD 1.3.3C Server"),
     PortObservation(22, "tcp", "open", "ssh", "OpenSSH 7.4"),
     PortObservation(8443, NULL, NULL, NULL, NULL)}

PortLists == UNION {[1..n -> PortSamples] : n \in 0..MaxPorts}

\* devices with a ports array, and one without the ports key
ClassifyDevices ==
    {Device("192.168.1.50", NULL, NULL, NULL, "up", TRUE, ports, "undefined", 0) :
         ports \in PortLists}
    \cup {Device("192.168.1.50", NULL, NULL, NULL, "up", FALSE, <<>>, "arp-scan", 0)}

\* the state in which identifyServices is called with one of the devices
InitClassify ==
    /\ whitelist = {}
    /\ blacklist = {}
    /\ alerts = <<>>
    /\ scanHistory = emptyMap
    /\ discoveredDevices = emptyMap
    /\ lastMerged = noDevice
    /\ monInFlight = {}
    /\ discInFlight = {}
    /\ discovery = Discovery("idle", <<>>, FALSE, <<>>, NoTime)
    /\ batch = Batch("idle", <<>>, 0, <<>>, <<>>, 0, NoTime)
    /\ emitted = <<>>
    /\ now = 0
    /\ ticks = 0
    /\ response \in {[op |-> "identifyServices", ip |-> device.ip,
                       status |-> "called", device |-> device] :
                          device \in ClassifyDevices}

NextClassify == identifyServices_call(response.device)

SpecClassify == InitClassify /\ [][NextClassify]_vars

\* the sample versions that contain a vulnerable-version signature, whatever
\* the case of the letters
VulnerableVersions ==
    {"vsftpd 2.3.4", "Apache 2.2.8 (Ubuntu)", "PROFTPD 1.3.3C Server"}

\* C26: identifyServices returns one service entry per port, in order, and
\* puts an entry into suspiciousServices exactly once when its port is in the
\* suspicious-port set or its version contains a signature; the reason is
\* 'Known vulnerable version' whenever the version matches and 'Commonly
\* exploited port' when only the port does; an empty or missing port list
\* yields two empty lists.
C26_IdentifyServices ==
    (response.op = "identifyServices" /\ response.status = "ok") =>
        LET ports == response.device.ports
            services == response.result.services
            suspicious == response.result.suspiciousServices
            byVersion(i) == ports[i].version \in VulnerableVersions
            byPort(i) == ports[i].port \in suspiciousPorts
            flagged == {i \in 1..Len(ports) : byPort(i) \/ byVersion(i)}
        IN  /\ ~response.device.hasPorts => services = <<>> /\ suspicious = <<>>
            /\ Len(services) = Len(ports)
            /\ \A i \in 1..Len(ports) :
                   /\ services[i].port = ports[i].port
                   /\ services[i].isSuspicious = (i \in flagged)
                   /\ services[i].reason =
                          IF byVersion(i) THEN "Known vulnerable version"
                          ELSE IF byPort(i) THEN "Commonly exploited port"
                          ELSE ""
            /\ Len(suspicious) = Cardinality(flagged)
            /\ suspicious = SelectSeq(services, LAMBDA entry : entry.isSuspicious)

\* a list of two ports was classified, of which one matches by port and by
\* version and is in suspiciousServices once
C26_Witness ==
    /\ response.op = "identifyServices"
    /\ response.status = "ok"
    /\ Len(response.result.services) = 2
    /\ Len(response.result.suspiciousServices) = 1
    /\ response.result.suspiciousServices[1].port \in suspiciousPorts
    /\ response.result.suspiciousServices[1].reason = "Known vulnerable version"

(***************************************************************************)
(* SpecBatchRun: one batch scan from its dispatch to its return, with the  *)
(* blacklist changing under it; every awaited scan returns or fails and    *)
(* every timer fires                                                       *)
(***************************************************************************)
\* the clock moves on while the batch sleeps
sleepTick(d) == batch.pc = "sleeping" /\ now < batch.wakeAt /\ Tick(d)

scanReturns ==
    /\ batch.pc = "scanning"
    /\ \E rnd \in 0..MaxRandom :
           \E outcome \in PortScanOutcomes(batch.devices[batch.i]) :
               scanMultipleDevices_resume(outcome, rnd)

NextBatchRun ==
    \/ \E devices \in DeviceLists :
           batch.devices = <<>> /\ scanMultipleDevices_dispatch(devices)
    \/ scanReturns
    \/ scanMultipleDevices_wake
    \/ \E ip \in IPs : addToBlacklist(ip)
    \/ \E ip \in IPs : removeFromBlacklist(ip)
    \/ \E d \in ShortSteps : sleepTick(d)

SpecBatchRun ==
    /\ Init
    /\ [][NextBatchRun]_vars
    /\ WF_vars(scanReturns)
    /\ WF_vars(scanMultipleDevices_wake)
    /\ WF_vars(\E d \in ShortSteps : sleepTick(d))

\* the devices the loop has dealt with: scanned, failed or skipped
accounted == Len(batch.results) + Len(batch.errors) + batch.skipped

\* C27: a batch scan runs to completion when every external scan returns or
\* fails; a failed scan does not stop the later ones; the devices are taken in
\* input order, each once; and at the end the results, the errors and the
\* devices skipped as blacklisted add up to totalDevices.
C27_BatchCompletes ==
    /\ (batch.pc # "idle") ~> (batch.pc = "idle")
    /\ [](/\ batch.pc = "scanning" =>
                batch.i \in 1..Len(batch.devices) /\ accounted = batch.i - 1
          /\ batch.pc = "sleeping" =>
                batch.i \in 1..Len(batch.devices) /\ accounted = batch.i
          /\ batch.pc = "idle" =>
                batch.i = Len(batch.devices) + 1 \/ batch.devices = <<>>
          /\ batch.pc = "idle" => accounted = Len(batch.devices))
    /\ [][/\ batch.pc # "idle" => batch'.devices = batch.devices /\ batch'.i >= batch.i
          /\ Len(batch'.results) > Len(batch.results) =>
                batch'.results = Append(batch.results, batch.devices[batch.i])
          /\ Len(batch'.errors) > Len(batch.errors) =>
                /\ Len(batch'.errors) = Len(batch.errors) + 1
                /\ batch'.errors[Len(batch'.errors)].ip = batch.devices[batch.i]]_vars

\* a batch of two devices has returned with one error and one result
C27_Witness ==
    /\ batch.pc = "idle"
    /\ Len(batch.devices) = 2
    /\ Len(batch.errors) = 1
    /\ Len(batch.results) = 1
    /\ response.op = "scanMultipleDevices"

(***************************************************************************)
(* SpecHistory: the scan history under bursts of scans that succeed, fail, *)
(* find no device or are denied                                            *)
(***************************************************************************)
HistoryOutcomes(ip) == BenignOutcomes(ip) \cup {ScanFailed, ScanOutput(<<>>)}

NextHistory ==
    \/ \E ip \in IPs : ip \notin monInFlight /\ scanDevicePorts_dispatch(ip)
    \/ \E ip \in IPs, rnd \in 0..MaxRandom : \E outcome \in HistoryOutcomes(ip) :
           /\ Len(updateScanHistory(ip, now)[ip]) <= MaxBurst
           /\ scanDevicePorts_resume(ip, outcome, rnd)
    \/ \E ip \in IPs : addToBlacklist(ip)
    \/ \E ip \in IPs : removeFromBlacklist(ip)
    \/ \E d \in TickSteps : ticks < MaxTicks /\ Tick(d)

SpecHistory == Init /\ [][NextHistory]_vars

\* the detection of the step read the frequency `count`: it reports a Port
\* Scan Attack citing that count if the count is above the threshold, and
\* none otherwise
frequencyRead(count) ==
    \A result \in scanResultsSent' :
        LET found == findingsOf(result.detectedAttacks, "Port Scan Attack")
        IN  IF count > portScanThreshold
            THEN Len(found) = 1 /\ found[1].description[2] = count
            ELSE found = <<>>

\* a scan that is denied, that fails or that finds no device leaves the scan
\* history as it is
unrecorded ==
    /\ \A ip \in IPs :
           (isBlacklisted(ip) /\ scanDevicePorts_dispatch(ip)) => UNCHANGED scanHistory
    /\ \A ip \in IPs, rnd \in 0..MaxRandom : \A outcome \in HistoryOutcomes(ip) :
           (/\ scanDevicePorts_resume(ip, outcome, rnd)
            /\ response'.status # "ok")
           => UNCHANGED scanHistory

\* C28 as stated: the scan history of ip is one entry longer after every
\* successful monitoring scan of ip and unchanged by a denied or failed scan
\* and by output without a device; the entry is recorded after detection, so
\* the frequency the scan's detection read does not include the scan.
C28_HistoryGrowsByOne ==
    [][/\ unrecorded
       /\ \A ip \in IPs, rnd \in 0..MaxRandom : \A outcome \in HistoryOutcomes(ip) :
              (/\ scanDevicePorts_resume(ip, outcome, rnd)
               /\ response'.status = "ok")
              => /\ Len(historyOf(ip)') = Len(historyOf(ip)) + 1
                 /\ frequencyRead(Len(historyOf(ip)))]_vars

\* C28 as amended: a successful monitoring scan of ip records exactly one
\* entry, the time of the scan, behind the earlier entries that are still
\* inside the window (older ones are dropped in the same step); a denied or
\* failed scan and output without a device leave the history unchanged; the
\* entry is recorded after detection, so the frequency the scan's detection
\* read does not include the scan.
C28_OneEntryRecorded ==
    [][/\ unrecorded
       /\ \A ip \in IPs, rnd \in 0..MaxRandom : \A outcome \in HistoryOutcomes(ip) :
              (/\ scanDevicePorts_resume(ip, outcome, rnd)
               /\ response'.status = "ok")
              => /\ historyOf(ip)' =
                        SelectSeq(historyOf(ip), LAMBDA timestamp :
                                      now - timestamp < portScanTimeWindow)
                        \o <<now>>
                 /\ frequencyRead(Len(historyOf(ip)))]_vars

\* the twelfth scan of a burst has read a frequency of 11 and reported it,
\* and the history holds 12 entries
C28_Witness ==
    /\ \E ip \in IPs : Len(historyOf(ip)) = portScanThreshold + 2
    /\ \E result \in scanResultsSent :
           \E k \in 1..Len(result.detectedAttacks) :
               /\ result.detectedAttacks[k].type = "Port Scan Attack"
               /\ result.detectedAttacks[k].description[2] = portScanThreshold + 1

(***************************************************************************)
(* SpecAnalyze: the threat analysis over a store that device scans fill,   *)
(* next to monitoring scans                                                *)
(***************************************************************************)
NextAnalyze ==
    \/ \E ip \in IPs : ip \notin discInFlight /\ scanPorts_dispatch(ip)
    \/ \E ip \in IPs : \E outcome \in DeviceScanOutcomes(ip) : scanPorts_resume(ip, outcome)
    \/ \E ip \in IPs : ip \notin monInFlight /\ scanDevicePorts_dispatch(ip)
    \/ \E ip \in IPs, rnd \in 0..MaxRandom : \E outcome \in AlertingOutcomes(ip) :
           /\ Len(historyOf(ip)) < MaxScans
           /\ scanDevicePorts_resume(ip, outcome, rnd)
    \/ \E ip \in IPs : addToBlacklist(ip)
    \/ analyzeAllDevices
    \/ clearDevices

SpecAnalyze == Init /\ [][NextAnalyze]_vars

\* C29: analyzeAllDevices appends no alert, emits no security-alert, records
\* no scan and leaves the device store and both access lists unchanged; it
\* reports a threat for exactly the stored devices with at least one port for
\* which the detection yields a finding or a suspicious service.
C29_AnalyzeReadOnly ==
    [][analyzeAllDevices =>
          /\ UNCHANGED <<alerts, scanHistory, discoveredDevices, whitelist, blacklist>>
          /\ eventsOf(emitted', "security-alert") = <<>>
          /\ response'.result.devicesAnalyzed = Cardinality(DOMAIN discoveredDevices)
          /\ response'.result.threatsFound = Cardinality(response'.result.threats)
          /\ \A ip \in IPs :
                 (\E threat \in response'.result.threats : threat.ip = ip)
                 <=> /\ has(discoveredDevices, ip)
                     /\ discoveredDevices[ip].ports # <<>>
                     /\ LET device == discoveredDevices[ip]
                            servicesInfo == identifyServices(device)
                        IN  \/ servicesInfo.suspiciousServices # <<>>
                            \/ detectAttackTypes(ip, device, servicesInfo, now) # <<>>]_vars

\* the analysis has reported the stored device with 23/tcp as a threat, and
\* the alert log is empty
C29_Witness ==
    /\ response.op = "analyzeAllDevices"
    /\ response.result.threatsFound = 1
    /\ \E ip \in IPs : has(discoveredDevices, ip) /\ discoveredDevices[ip].ports = <<Telnet>>
    /\ alerts = <<>>

\* C30: no alert of severity low is ever recorded: every alert of the log is
\* medium or high, since an alert is generated only for findings or suspicious
\* services, and suspicious services always come with a finding of severity
\* high.
C30_NoLowAlert ==
    \A i \in 1..Len(alerts) :
        /\ alerts[i].severity \in {"medium", "high"}
        /\ alerts[i].suspiciousServices # <<>> =>
               \E k \in 1..Len(alerts[i].attacks) : alerts[i].attacks[k].severity = "high"

\* the log holds an alert of severity medium, recorded for findings alone, and
\* an alert recorded for a device whose only suspicious port is closed
C30_Witness ==
    /\ \E i \in 1..Len(alerts) :
           alerts[i].severity = "medium" /\ alerts[i].suspiciousServices = <<>>
    /\ \E i \in 1..Len(alerts) :
           /\ Len(alerts[i].suspiciousServices) = 1
           /\ alerts[i].suspiciousServices[1].state = "closed"
           /\ alerts[i].severity = "high"
====
